---- MODULE Spec2Model ----
(***************************************************************************)
(* A model of the rendering composition of three-d: the Particles geometry *)
(* (src/renderer/geometry/particles.rs), the Gm combinator                 *)
(* (src/renderer/object/gm.rs) and the Material capability as implemented  *)
(* by UVMaterial (src/renderer/material/uv_material.rs).                   *)
(*                                                                         *)
(* Numbers.  Vec3 components are integers in hundredths (9.82 is 982).     *)
(* A Mat4 is an exact rational matrix [n |-> rows, d |-> denominator] in   *)
(* lowest terms with d > 0, so that invert() is computed, not assumed;     *)
(* f32 rounding is not modelled.  Option<T> is <<>> (None) or <<x>>.       *)
(***************************************************************************)
EXTENDS Integers, Sequences, FiniteSets, TLC

(***************************************************************************)
(* Bounds of the model.                                                    *)
(***************************************************************************)
MaxParticles == 2

(***************************************************************************)
(* Option<T>                                                               *)
(***************************************************************************)
None == <<>>
Some(x) == <<x>>
IsSome(o) == o # <<>>
Unwrap(o) == o[1]

(***************************************************************************)
(* ThreeDResult<()>                                                        *)
(***************************************************************************)
Ok == [ok |-> TRUE, kind |-> "", name |-> ""]
Err(kind, name) == [ok |-> FALSE, kind |-> kind, name |-> name]

(***************************************************************************)
(* Mat4: exact 4x4 matrices.                                               *)
(***************************************************************************)
Abs(x) == IF x < 0 THEN -x ELSE x

RECURSIVE Gcd(_, _)
Gcd(a, b) == IF b = 0 THEN a ELSE Gcd(b, a % b)

Idx == 1..4

\* The four rows of the entries e[i][j], each entry evaluated once.
Rows(e) ==
    <<<<e[1][1], e[1][2], e[1][3], e[1][4]>>,
      <<e[2][1], e[2][2], e[2][3], e[2][4]>>,
      <<e[3][1], e[3][2], e[3][3], e[3][4]>>,
      <<e[4][1], e[4][2], e[4][3], e[4][4]>>>>

\* The common divisor of all sixteen numerators and the denominator.
MatGcd(n, d) ==
    LET row(i) == Gcd(Gcd(Abs(n[i][1]), Abs(n[i][2])), Gcd(Abs(n[i][3]), Abs(n[i][4])))
    IN  Gcd(Gcd(Gcd(row(1), row(2)), Gcd(row(3), row(4))), Abs(d))

\* The matrix n/d in lowest terms with a positive denominator (d # 0).
Rat(n, d) ==
    LET g == MatGcd(n, d)
        s == IF d < 0 THEN -g ELSE g
    IN  [n |-> Rows([i \in Idx |-> [j \in Idx |-> n[i][j] \div s]]), d |-> d \div s]

Mat(r1, r2, r3, r4) == [n |-> <<r1, r2, r3, r4>>, d |-> 1]

identity == Mat(<<1, 0, 0, 0>>, <<0, 1, 0, 0>>, <<0, 0, 1, 0>>, <<0, 0, 0, 1>>)

transpose(m) ==
    [n |-> Rows([i \in Idx |-> [j \in Idx |-> m.n[j][i]]]), d |-> m.d]

Others(k) == IF k = 1 THEN <<2, 3, 4>>
             ELSE IF k = 2 THEN <<1, 3, 4>>
             ELSE IF k = 3 THEN <<1, 2, 4>>
             ELSE <<1, 2, 3>>

\* Determinant of the 3x3 submatrix of n on rows rs and columns cs.
Det3(n, rs, cs) ==
    LET a(i, j) == n[rs[i]][cs[j]]
    IN    a(1, 1) * (a(2, 2) * a(3, 3) - a(2, 3) * a(3, 2))
        - a(1, 2) * (a(2, 1) * a(3, 3) - a(2, 3) * a(3, 1))
        + a(1, 3) * (a(2, 1) * a(3, 2) - a(2, 2) * a(3, 1))

Cofactor(n, i, j) ==
    (IF (i + j) % 2 = 0 THEN 1 ELSE -1) * Det3(n, Others(i), Others(j))

\* Determinant of the numerator matrix (the determinant of m is this / d^4).
determinant(n) ==
    n[1][1] * Cofactor(n, 1, 1) + n[1][2] * Cofactor(n, 1, 2)
      + n[1][3] * Cofactor(n, 1, 3) + n[1][4] * Cofactor(n, 1, 4)

\* Mat4::invert: None when the determinant is zero, else adj(m) / det(m).
\* With m = n/d: inverse(m) = d * adj(n) / det(n).
invert(m) ==
    LET det == determinant(m.n)
        adj == Rows([i \in Idx |-> [j \in Idx |-> m.d * Cofactor(m.n, j, i)]])
    IN  IF det = 0 THEN None ELSE Some(Rat(adj, det))

\* The matrix product a * b.
MatMul(a, b) ==
    LET ab == Rows([i \in Idx |-> [j \in Idx |->
                    a.n[i][1] * b.n[1][j] + a.n[i][2] * b.n[2][j]
                      + a.n[i][3] * b.n[3][j] + a.n[i][4] * b.n[4][j]]])
    IN  Rat(ab, a.d * b.d)

\* The matrices the caller passes to set_transformation.
Scaling      == Mat(<<2, 0, 0, 0>>, <<0, 2, 0, 0>>, <<0, 0, 2, 0>>, <<0, 0, 0, 1>>)
Translation  == Mat(<<1, 0, 0, 1>>, <<0, 1, 0, 2>>, <<0, 0, 1, 3>>, <<0, 0, 0, 1>>)
Flattening   == Mat(<<1, 0, 0, 0>>, <<0, 0, 0, 0>>, <<0, 0, 1, 0>>, <<0, 0, 0, 1>>)
Matrices == {identity, Scaling, Translation, Flattening}

\* invert() of each of these matrices, computed once.
Inverses == {<<m, invert(m)>> : m \in Matrices}
Mat4_invert(m) == (CHOOSE p \in Inverses : p[1] = m)[2]


(***************************************************************************)
(* Vec3 values, ParticleData and the data passed to update.                *)
(***************************************************************************)
vec3(x, y, z) == <<x, y, z>>

ParticleData(p, v) == [start_position |-> p, start_velocity |-> v]

\* The k-th particle of the caller's pool: each differs from the others in
\* both its start position and its start velocity.  The first starts at the
\* origin with velocity (0, 1, 0).
Particle(k) == ParticleData(vec3(100 * (k - 1), 0, 0), vec3(0, 100 * k, 100 * (k - 1)))

\* The data passed to update: every run of consecutive particles of a pool of
\* MaxParticles particles (the empty one included).
DataSets ==
    {[i \in 1..n |-> Particle(first + i - 1)] :
        <<first, n>> \in {fn \in (1..MaxParticles) \X (0..MaxParticles) :
                              fn[1] + fn[2] - 1 <= MaxParticles}}

GRAVITY == vec3(0, -982, 0)
Accelerations == {GRAVITY, vec3(0, 0, 0)}
Times == {0, 1}

(***************************************************************************)
(* CpuMesh: positions, and optional normals, uvs and indices.              *)
(***************************************************************************)
\* A triangle with positions only.
BareMesh ==
    [positions |-> <<vec3(0, 0, 0), vec3(100, 0, 0), vec3(0, 100, 0)>>,
     normals   |-> None,
     uvs       |-> None,
     indices   |-> None]

\* A two-sided triangle: three vertices with normals and uvs, six indices.
FullMesh ==
    [positions |-> <<vec3(0, 0, 0), vec3(100, 0, 0), vec3(0, 100, 0)>>,
     normals   |-> Some(<<vec3(0, 0, 100), vec3(0, 0, 100), vec3(0, 0, 100)>>),
     uvs       |-> Some(<<<<0, 0>>, <<100, 0>>, <<0, 100>>>>),
     indices   |-> Some(<<0, 1, 2, 2, 1, 0>>)]

CpuMeshes == {BareMesh, FullMesh}

\* uvs.iter().map(|uv| vec2(uv.x, 1.0 - uv.y)): 1.0 is 100 hundredths.
FlipUvs(uvs) == [i \in 1..Len(uvs) |-> <<uvs[i][1], 100 - uvs[i][2]>>]

(***************************************************************************)
(* RenderStates and Material.                                              *)
(***************************************************************************)
RenderStates_default == "RenderStates::default"
RenderStates_blend   == "RenderStates{blend}"

\* UVMaterial has the single field render_states.
UVMaterial(render_states) ==
    [variant |-> "UVMaterial", render_states |-> render_states]

\* Any other implementor of Material: its own render states and transparency
\* flag, and the input declarations of its fragment shader source.
Implementor(render_states, is_transparent, fragment) ==
    [variant |-> "Implementor", render_states |-> render_states,
     is_transparent |-> is_transparent, fragment |-> fragment]

IN_POS == "in vec3 pos;"
IN_NOR == "in vec3 nor;"
IN_UVS == "in vec2 uvs;"

\* shaders/uv_material.frag colours by the uv coordinates.
Material_fragment_shader_source(material) ==
    IF material.variant = "UVMaterial" THEN <<IN_UVS>> ELSE material.fragment

\* UVMaterial binds nothing and returns Ok(()); another implementor fails when
\* the program lacks a uniform it sets (uniforms_ok = FALSE).
Material_use_uniforms(material, uniforms_ok) ==
    IF material.variant = "UVMaterial" \/ uniforms_ok THEN Ok
    ELSE Err("UniformMismatch", "material")

Material_render_states(material) == material.render_states

Material_is_transparent(material) ==
    IF material.variant = "UVMaterial" THEN FALSE ELSE material.is_transparent

\* The materials a Gm owns in the model, and those passed to render_with_material.
OwnedMaterials ==
    {UVMaterial(RenderStates_default),
     Implementor(RenderStates_blend, TRUE, <<>>),
     Implementor(RenderStates_default, FALSE, <<IN_NOR>>)}

SuppliedMaterials ==
    {UVMaterial(RenderStates_blend),
     Implementor(RenderStates_default, FALSE, <<IN_UVS, IN_NOR>>),
     Implementor(RenderStates_blend, TRUE, <<IN_POS>>)}


(***************************************************************************)
(* Shader sources.  A fragment shader source is the sequence of its input  *)
(* declarations; a vertex shader source is its declarations and the        *)
(* assignments of main(), each with the names it reads.                    *)
(***************************************************************************)
\* fragment_shader_source.find(line).is_some()
Find(source, line) == \E i \in 1..Len(source) : source[i] = line

Stmt(writes, reads) == [writes |-> writes, reads |-> reads]

Particles_vertex_shader_source(fragment_shader_source) ==
    LET use_positions == Find(fragment_shader_source, IN_POS)
        use_normals   == Find(fragment_shader_source, IN_NOR)
        use_uvs       == Find(fragment_shader_source, IN_UVS)
    IN  [uniforms |-> {"view", "projection", "time", "acceleration", "modelMatrix"}
                        \cup (IF use_normals THEN {"normalMatrix"} ELSE {}),
         ins      |-> {"start_position", "start_velocity", "position"}
                        \cup (IF use_normals THEN {"normal"} ELSE {})
                        \cup (IF use_uvs THEN {"uv_coordinates"} ELSE {}),
         outs     |-> (IF use_positions THEN {"pos"} ELSE {})
                        \cup (IF use_normals THEN {"nor"} ELSE {})
                        \cup (IF use_uvs THEN {"uvs"} ELSE {}),
         locals   |-> {"p"},
         main     |-> <<Stmt("p", {"start_position", "start_velocity", "time", "acceleration"}),
                        Stmt("gl_Position", {"projection", "view", "modelMatrix", "p", "position"})>>
                      \o (IF use_positions THEN <<Stmt("pos", {"worldPosition"})>> ELSE <<>>)
                      \o (IF use_normals THEN <<Stmt("nor", {"normalMatrix", "normal"})>> ELSE <<>>)
                      \o (IF use_uvs THEN <<Stmt("uvs", {"uv_coordinates"})>> ELSE <<>>)]

\* The name a fragment input declaration declares.
InputName(line) == IF line = IN_POS THEN "pos"
                   ELSE IF line = IN_NOR THEN "nor"
                   ELSE IF line = IN_UVS THEN "uvs"
                   ELSE line

(***************************************************************************)
(* The graphics context: programs and buffers.  Their code is outside the  *)
(* modelled sources; they follow the specification of the context          *)
(* boundary (build a program from two sources, query and bind its          *)
(* attributes and uniforms, fill a buffer), each failing with an error.    *)
(* A program cached for the same sources is the program built from them.   *)
(***************************************************************************)
\* A vertex shader compiles when main() reads and writes declared names only.
Compiles(vs) ==
    \A i \in 1..Len(vs.main) :
        /\ vs.main[i].reads \subseteq vs.uniforms \cup vs.ins \cup vs.locals
        /\ vs.main[i].writes \in vs.outs \cup vs.locals \cup {"gl_Position"}

\* The program links when the vertex shader writes every fragment input.
Links(vs, fs) ==
    \A i \in 1..Len(fs) :
        /\ InputName(fs[i]) \in vs.outs
        /\ \E k \in 1..Len(vs.main) : vs.main[k].writes = InputName(fs[i])

\* context.program(vertex_shader_source, fragment_shader_source, callback):
\* the program compiled from (or cached for) the two sources, or the error.
\* Its attributes and uniforms are the declared names main() reads.
Context_program(vs, fs) ==
    IF Compiles(vs) /\ Links(vs, fs)
    THEN [result     |-> Ok,
          attributes |-> {a \in vs.ins : \E k \in 1..Len(vs.main) : a \in vs.main[k].reads},
          uniforms   |-> {u \in vs.uniforms : \E k \in 1..Len(vs.main) : u \in vs.main[k].reads}]
    ELSE [result |-> Err("ResourceAllocationError", "program"),
          attributes |-> {}, uniforms |-> {}]

Program_requires_attribute(program, name) == name \in program.attributes

Program_use_uniform(program, name) ==
    IF name \in program.uniforms THEN Ok ELSE Err("UniformMismatch", name)

Program_use_attribute(program, name) ==
    IF name \in program.attributes THEN Ok ELSE Err("MissingAttribute", name)

\* Buffer::fill: the buffer holds data when the upload succeeds and is left
\* as it was when it fails.
Buffer_fill(buffer, data, ok) ==
    IF ok THEN [buffer |-> data, result |-> Ok]
    ELSE [buffer |-> buffer, result |-> Err("ResourceAllocationError", "buffer")]


(***************************************************************************)
(* State: the fields of a Gm<Particles, M> (its geometry's fields under    *)
(* their own names, and its material), whether a call has panicked, the    *)
(* last call made on it with what it returned and drew, and (a history     *)
(* variable) the data of the most recent update that returned Ok.          *)
(***************************************************************************)
VARIABLES
    start_position_buffer, start_velocity_buffer,
    position_buffer, normal_buffer, uv_buffer, index_buffer,
    acceleration, instance_count, transformation, normal_transformation, time,
    material, panicked, last, updated

mesh_buffers == <<position_buffer, normal_buffer, uv_buffer, index_buffer>>
instance_buffers == <<start_position_buffer, start_velocity_buffer>>
particles == <<start_position_buffer, start_velocity_buffer,
               position_buffer, normal_buffer, uv_buffer, index_buffer,
               acceleration, instance_count, transformation, normal_transformation, time>>
vars == <<particles, material, panicked, last, updated>>

\* What a call is seen to do: its result, the draw calls it issued, the
\* material it was given (or read), and the value it returned.
Call(op, result, draws, mat, value) ==
    [op |-> op, result |-> result, draws |-> draws, material |-> mat, value |-> value]

\* Particles::new(context, cpu_mesh), for a valid mesh.
Particles_new(cpu_mesh) ==
    /\ position_buffer = cpu_mesh.positions
    /\ normal_buffer = cpu_mesh.normals
    /\ index_buffer = cpu_mesh.indices
    /\ uv_buffer = (IF IsSome(cpu_mesh.uvs) THEN Some(FlipUvs(Unwrap(cpu_mesh.uvs))) ELSE None)
    /\ start_position_buffer = <<>>
    /\ start_velocity_buffer = <<>>
    /\ acceleration = GRAVITY
    /\ instance_count = 0
    /\ transformation = identity
    /\ normal_transformation = identity
    /\ time = 0

\* Gm::new(geometry, material)
Gm_new(cpu_mesh, m) ==
    /\ Particles_new(cpu_mesh)
    /\ material = m

Init ==
    /\ \E cpu_mesh \in CpuMeshes : Gm_new(cpu_mesh, UVMaterial(RenderStates_default))
    /\ panicked = FALSE
    /\ last = Call("new", Ok, <<>>, None, FALSE)
    /\ updated = <<>>

\* set_transformation without the transposition.
Particles_set_transformation_untransposed(m) ==
    /\ transformation' = m
    /\ LET inverse == Mat4_invert(transformation')
       IN  IF IsSome(inverse)
           THEN /\ normal_transformation' = Unwrap(inverse)
                /\ panicked' = FALSE
           ELSE /\ normal_transformation' = normal_transformation
                /\ panicked' = TRUE

\* Particles::set_transformation: the unwrap of invert() panics on None, after
\* transformation has been assigned.
Particles_set_transformation(m) ==
    /\ transformation' = m
    /\ LET inverse == Mat4_invert(transformation')
       IN  IF IsSome(inverse)
           THEN /\ normal_transformation' = transpose(Unwrap(inverse))
                /\ panicked' = FALSE
           ELSE /\ normal_transformation' = normal_transformation
                /\ panicked' = TRUE

SetTransformation(m) ==
    /\ ~panicked
    /\ Particles_set_transformation(m)
    /\ last' = Call("set_transformation",
                    IF panicked' THEN Err("panic", "Option::unwrap") ELSE Ok,
                    <<>>, None, FALSE)
    /\ UNCHANGED <<instance_buffers, mesh_buffers, acceleration, instance_count, time,
                   material, updated>>

\* Particles::update: the two fills in turn, each returning early on error,
\* then instance_count.  Yields the three fields and the result.
Particles_update(data, position_ok, velocity_ok) ==
    LET start_position == [i \in 1..Len(data) |-> data[i].start_position]
        start_velocity == [i \in 1..Len(data) |-> data[i].start_velocity]
        fill_position  == Buffer_fill(start_position_buffer, start_position, position_ok)
        fill_velocity  == Buffer_fill(start_velocity_buffer, start_velocity, velocity_ok)
    IN  IF ~fill_position.result.ok
        THEN [start_position_buffer |-> fill_position.buffer,
              start_velocity_buffer |-> start_velocity_buffer,
              instance_count |-> instance_count,
              result |-> fill_position.result]
        ELSE IF ~fill_velocity.result.ok
        THEN [start_position_buffer |-> fill_position.buffer,
              start_velocity_buffer |-> fill_velocity.buffer,
              instance_count |-> instance_count,
              result |-> fill_velocity.result]
        ELSE [start_position_buffer |-> fill_position.buffer,
              start_velocity_buffer |-> fill_velocity.buffer,
              instance_count |-> Len(data),   \* as u32: a length below 2^32
              result |-> Ok]

\* An update that also restarts the clock.
Update_restarting(data, position_ok, velocity_ok) ==
    LET after == Particles_update(data, position_ok, velocity_ok)
    IN  /\ ~panicked
        /\ start_position_buffer' = after.start_position_buffer
        /\ start_velocity_buffer' = after.start_velocity_buffer
        /\ instance_count' = after.instance_count
        /\ time' = 0
        /\ last' = Call("update", after.result, <<>>, None, FALSE)
        /\ updated' = (IF after.result.ok THEN data ELSE updated)
        /\ UNCHANGED <<mesh_buffers, acceleration, transformation, normal_transformation,
                       material, panicked>>

\* particles.update(&data)
Update(data, position_ok, velocity_ok) ==
    LET after == Particles_update(data, position_ok, velocity_ok)
    IN  /\ ~panicked
        /\ start_position_buffer' = after.start_position_buffer
        /\ start_velocity_buffer' = after.start_velocity_buffer
        /\ instance_count' = after.instance_count
        /\ last' = Call("update", after.result, <<>>, None, FALSE)
        /\ updated' = (IF after.result.ok THEN data ELSE updated)
        /\ UNCHANGED <<mesh_buffers, acceleration, transformation, normal_transformation,
                       time, material, panicked>>

\* The caller's assignments to the public fields time and acceleration.
SetTime(t) ==
    /\ ~panicked
    /\ time' = t
    /\ last' = Call("time", Ok, <<>>, None, FALSE)
    /\ UNCHANGED <<instance_buffers, mesh_buffers, acceleration, instance_count,
                   transformation, normal_transformation, material, panicked, updated>>

SetAcceleration(a) ==
    /\ ~panicked
    /\ acceleration' = a
    /\ last' = Call("acceleration", Ok, <<>>, None, FALSE)
    /\ UNCHANGED <<instance_buffers, mesh_buffers, time, instance_count,
                   transformation, normal_transformation, material, panicked, updated>>


(***************************************************************************)
(* Rendering.                                                              *)
(***************************************************************************)
\* The motion law with the whole acceleration in its last term.
Particles_vertex_position_unhalved(start_position, start_velocity, u_acceleration, u_time) ==
    [i \in 1..3 |-> start_position[i] + start_velocity[i] * u_time
                      + u_acceleration[i] * u_time * u_time]

\* The position a particle is drawn around, as the first statement of the
\* generated main computes it from the two instance attributes and the two
\* uniforms (line 142).  Components are hundredths and the time is in whole
\* seconds; the accelerations used have even components, so the half is exact.
Particles_vertex_position(start_position, start_velocity, u_acceleration, u_time) ==
    [i \in 1..3 |-> start_position[i] + start_velocity[i] * u_time
                      + ((u_acceleration[i] \div 2) * u_time) * u_time]

\* The values render_with_material gives the acceleration and time uniforms
\* (lines 185-186).
Particles_uniforms == [acceleration |-> acceleration, time |-> time]

Min(a, b) == IF a <= b THEN a ELSE b

\* A draw call as the context receives it: the call, its render states, its
\* vertex (or index) count and instance count, the element counts of the
\* instance buffers bound to it, and the position the vertex shader computes
\* for each instance that both instance buffers hold.
Draw(call, render_states, count, instances) ==
    [call |-> call, render_states |-> render_states, count |-> count,
     instance_count |-> instances,
     start_position_count |-> Len(start_position_buffer),
     start_velocity_count |-> Len(start_velocity_buffer),
     p |-> [i \in 1..Min(instances, Min(Len(start_position_buffer),
                                        Len(start_velocity_buffer))) |->
              Particles_vertex_position(start_position_buffer[i], start_velocity_buffer[i],
                                        Particles_uniforms.acceleration,
                                        Particles_uniforms.time)]]

Rendered(result, draws) == [result |-> result, draws |-> draws]

\* The first error of a sequence of results, or Ok.
RECURSIVE FirstError(_)
FirstError(results) ==
    IF results = <<>> THEN Ok
    ELSE IF ~Head(results).ok THEN Head(results)
    ELSE FirstError(Tail(results))

\* The draw dispatch without its indexed branch.
Particles_draw_arrays_only(program, mat, draw_ok) ==
    Rendered(IF draw_ok THEN Ok ELSE Err("ResourceAllocationError", "draw"),
             <<Draw("draw_arrays_instanced", Material_render_states(mat),
                    Len(position_buffer), instance_count)>>)

\* The draw dispatch of render_with_material (lines 211-225).
Particles_draw(program, mat, draw_ok) ==
    Rendered(IF draw_ok THEN Ok ELSE Err("ResourceAllocationError", "draw"),
             IF IsSome(index_buffer)
             THEN <<Draw("draw_elements_instanced", Material_render_states(mat),
                         Len(Unwrap(index_buffer)), instance_count)>>
             ELSE <<Draw("draw_arrays_instanced", Material_render_states(mat),
                         Len(position_buffer), instance_count)>>)

\* The optional attributes with the normals looked at before the uvs.
Particles_bind_optional_normal_first(program, mat, draw_ok) ==
    IF Program_requires_attribute(program, "normal") /\ ~IsSome(normal_buffer)
    THEN Rendered(Err("MissingMeshBuffer", "normal"), <<>>)
    ELSE IF Program_requires_attribute(program, "uv_coordinates") /\ ~IsSome(uv_buffer)
    THEN Rendered(Err("MissingMeshBuffer", "uv coordinate"), <<>>)
    ELSE IF Program_requires_attribute(program, "normal")
            /\ ~Program_use_uniform(program, "normalMatrix").ok
    THEN Rendered(Program_use_uniform(program, "normalMatrix"), <<>>)
    ELSE Particles_draw(program, mat, draw_ok)

\* The optional attributes of render_with_material (lines 195-209), then the draw.
Particles_bind_optional(program, mat, draw_ok) ==
    IF Program_requires_attribute(program, "uv_coordinates") /\ ~IsSome(uv_buffer)
    THEN Rendered(Err("MissingMeshBuffer", "uv coordinate"), <<>>)
    ELSE IF Program_requires_attribute(program, "normal") /\ ~IsSome(normal_buffer)
    THEN Rendered(Err("MissingMeshBuffer", "normal"), <<>>)
    ELSE IF Program_requires_attribute(program, "normal")
            /\ ~Program_use_uniform(program, "normalMatrix").ok
    THEN Rendered(Program_use_uniform(program, "normalMatrix"), <<>>)
    ELSE Particles_draw(program, mat, draw_ok)

\* The callback run with the program (lines 181-226): the material's uniforms,
\* the geometry's uniforms and instance attributes, the vertex attributes the
\* program requires, and the draw.
Particles_callback(program, mat, uniforms_ok, draw_ok) ==
    LET bound == FirstError(<<Material_use_uniforms(mat, uniforms_ok),
                              Program_use_uniform(program, "modelMatrix"),
                              Program_use_uniform(program, "acceleration"),
                              Program_use_uniform(program, "time"),
                              Program_use_uniform(program, "projection"),
                              Program_use_uniform(program, "view"),
                              Program_use_attribute(program, "start_position"),
                              Program_use_attribute(program, "start_velocity"),
                              IF Program_requires_attribute(program, "position")
                              THEN Program_use_attribute(program, "position") ELSE Ok>>)
    IN  IF ~bound.ok THEN Rendered(bound, <<>>)
        ELSE Particles_bind_optional(program, mat, draw_ok)

\* Particles::render_with_material: the program for the fragment shader source
\* of the material and the vertex shader source generated for it, then the
\* callback, unless the program could not be built.
Particles_render_with_material(mat, uniforms_ok, draw_ok) ==
    LET fragment_shader_source == Material_fragment_shader_source(mat)
        vertex_shader_source   == Particles_vertex_shader_source(fragment_shader_source)
        program == Context_program(vertex_shader_source, fragment_shader_source)
    IN  IF ~program.result.ok THEN Rendered(program.result, <<>>)
        ELSE Particles_callback(program, mat, uniforms_ok, draw_ok)

\* A Gm that renders with its own material whatever material it is given.
Gm_render_with_material_owned(mat, uniforms_ok, draw_ok) ==
    Particles_render_with_material(material, uniforms_ok, draw_ok)

\* impl Geometry for Gm: forwards to the owned geometry.
Gm_render_with_material(mat, uniforms_ok, draw_ok) ==
    Particles_render_with_material(mat, uniforms_ok, draw_ok)

\* impl Object for Gm
Gm_render(uniforms_ok, draw_ok) ==
    Gm_render_with_material(material, uniforms_ok, draw_ok)

\* A Gm that keeps the transparency of the material it was built with.
Gm_is_transparent_at_new == Material_is_transparent(UVMaterial(RenderStates_default))

Gm_is_transparent == Material_is_transparent(material)

\* A render that drops the particles when it fails.
RenderWithMaterial_dropping(mat, uniforms_ok, draw_ok) ==
    LET r == Gm_render_with_material(mat, uniforms_ok, draw_ok)
    IN  /\ ~panicked
        /\ last' = Call("render_with_material", r.result, r.draws, Some(mat), FALSE)
        /\ instance_count' = (IF r.result.ok THEN instance_count ELSE 0)
        /\ UNCHANGED <<instance_buffers, mesh_buffers, acceleration, transformation,
                       normal_transformation, time, material, panicked, updated>>

\* gm.render_with_material(&mat, camera, lights)
RenderWithMaterial(mat, uniforms_ok, draw_ok) ==
    LET r == Gm_render_with_material(mat, uniforms_ok, draw_ok)
    IN  /\ ~panicked
        /\ last' = Call("render_with_material", r.result, r.draws, Some(mat), FALSE)
        /\ UNCHANGED <<particles, material, panicked, updated>>

\* gm.render(camera, lights)
Render(uniforms_ok, draw_ok) ==
    LET r == Gm_render(uniforms_ok, draw_ok)
    IN  /\ ~panicked
        /\ last' = Call("render", r.result, r.draws, None, FALSE)
        /\ UNCHANGED <<particles, material, panicked, updated>>

\* gm.is_transparent()
IsTransparent ==
    /\ ~panicked
    /\ last' = Call("is_transparent", Ok, <<>>, None, Gm_is_transparent)
    /\ UNCHANGED <<particles, material, panicked, updated>>

\* The owner's mutation or replacement of the public field gm.material.
SetMaterial(m) ==
    /\ ~panicked
    /\ material' = m
    /\ last' = Call("material", Ok, <<>>, None, FALSE)
    /\ UNCHANGED <<particles, panicked, updated>>

Next ==
    \/ \E data \in DataSets, failing \in {"none", "position", "velocity"} :
          Update(data, failing # "position", failing # "velocity")
    \/ \E m \in Matrices : SetTransformation(m)
    \/ \E t \in Times : SetTime(t)
    \/ \E a \in Accelerations : SetAcceleration(a)
    \/ \E m \in OwnedMaterials : SetMaterial(m)
    \/ IsTransparent
    \/ \E uniforms_ok, draw_ok \in BOOLEAN : Render(uniforms_ok, draw_ok)
    \/ \E mat \in SuppliedMaterials, uniforms_ok, draw_ok \in BOOLEAN :
          RenderWithMaterial(mat, uniforms_ok, draw_ok)

Spec == Init /\ [][Next]_vars


(***************************************************************************)
(* Properties of Particles::update and Particles::set_transformation.      *)
(***************************************************************************)
StartPositions(data) == [i \in 1..Len(data) |-> data[i].start_position]
StartVelocities(data) == [i \in 1..Len(data) |-> data[i].start_velocity]

\* C1: in every state, instance_count is the length of the data of the most
\* recent update that returned Ok (0 before any), and the start-position and
\* start-velocity buffers hold exactly that data's entries, in order.
C1_LastUpdateHeld ==
    /\ instance_count = Len(updated)
    /\ start_position_buffer = StartPositions(updated)
    /\ start_velocity_buffer = StartVelocities(updated)

\* C2: while no call has been given a non-invertible matrix,
\* normal_transformation is the transpose of the inverse of transformation
\* (its transpose times transformation is the identity), and a step changes
\* normal_transformation only if it changes transformation.
C2_NormalTransformation ==
    /\ [](~panicked => MatMul(transpose(normal_transformation), transformation) = identity)
    /\ [][normal_transformation' # normal_transformation =>
             transformation' # transformation]_vars

\* C2 witness: set_transformation has stored a matrix whose inverse is not
\* symmetric, so that the transposition shows in normal_transformation.
C2_Witness ==
    /\ last.op = "set_transformation"
    /\ ~panicked
    /\ transformation = Translation
    /\ normal_transformation # Unwrap(invert(transformation))
    /\ normal_transformation # identity

\* C3: every draw call of the last render has an instance count within the
\* element counts of both instance buffers bound to it.
C3_DrawWithinBuffers ==
    \A i \in 1..Len(last.draws) :
        /\ last.draws[i].instance_count <= last.draws[i].start_position_count
        /\ last.draws[i].instance_count <= last.draws[i].start_velocity_count

\* C4: an update that returns an error leaves the start-position buffer, the
\* start-velocity buffer and instance_count as they were before the call.
C4_UpdateAllOrNothing ==
    [][(last'.op = "update" /\ ~last'.result.ok) =>
          UNCHANGED <<start_position_buffer, start_velocity_buffer, instance_count>>]_vars

\* C6: set_transformation with a non-invertible matrix completes, with the
\* matrix stored and normal_transformation set to the identity.
C6_IdentityFallback ==
    (last.op = "set_transformation" /\ ~IsSome(Mat4_invert(transformation))) =>
        (~panicked /\ last.result.ok /\ normal_transformation = identity)


(***************************************************************************)
(* Properties of rendering and of Gm.                                      *)
(***************************************************************************)
RenderOps == {"render", "render_with_material"}

\* The material the last render was made with.
RenderedMaterial == IF last.op = "render" THEN material ELSE Unwrap(last.material)

\* The program built for a material and the Particles vertex shader.
BuiltProgram(mat) ==
    Context_program(Particles_vertex_shader_source(Material_fragment_shader_source(mat)),
                    Material_fragment_shader_source(mat))

\* The built program requires an attribute the geometry has no buffer for.
MissingUvs(mat) ==
    /\ BuiltProgram(mat).result.ok
    /\ Program_requires_attribute(BuiltProgram(mat), "uv_coordinates")
    /\ ~IsSome(uv_buffer)

MissingNormals(mat) ==
    /\ BuiltProgram(mat).result.ok
    /\ Program_requires_attribute(BuiltProgram(mat), "normal")
    /\ ~IsSome(normal_buffer)

\* C5 as stated, for the renders that got as far as the vertex attributes (the
\* material's uniforms were bound): a render whose program requires uvs
\* (normals) the geometry has no buffer for returns the error naming
\* "uv coordinate" ("normal") and issues no draw call.
C5_ErrorNamesAttribute ==
    (last.op \in RenderOps /\ last.result.kind # "UniformMismatch") =>
        /\ MissingUvs(RenderedMaterial) =>
              (~last.result.ok /\ last.result.name = "uv coordinate" /\ last.draws = <<>>)
        /\ MissingNormals(RenderedMaterial) =>
              (~last.result.ok /\ last.result.name = "normal" /\ last.draws = <<>>)

\* C5 (amended): such a render issues no draw call and returns an error: the
\* error of the material's use_uniforms if that failed, else MissingMeshBuffer
\* naming the first missing attribute, uvs ("uv coordinate") before normals
\* ("normal").
C5_FirstMissingBuffer ==
    (last.op \in RenderOps
        /\ (MissingUvs(RenderedMaterial) \/ MissingNormals(RenderedMaterial))) =>
        /\ ~last.result.ok
        /\ last.draws = <<>>
        /\ last.result \in
              {Material_use_uniforms(RenderedMaterial, FALSE),
               Err("MissingMeshBuffer",
                   IF MissingUvs(RenderedMaterial) THEN "uv coordinate" ELSE "normal")}
        /\ Material_use_uniforms(RenderedMaterial, FALSE).ok =>
              last.result.kind = "MissingMeshBuffer"

\* C5 witness: a render whose program requires both uvs and normals, neither
\* of which the geometry holds, has returned the error naming the uvs.
C5_Witness ==
    /\ last.op = "render_with_material"
    /\ MissingUvs(RenderedMaterial)
    /\ MissingNormals(RenderedMaterial)
    /\ last.result = Err("MissingMeshBuffer", "uv coordinate")

\* C7: a render that returns Ok has issued exactly one draw call, with the
\* current instance_count and the render states of the material rendered
\* with: indexed over the index buffer if there is one, else non-indexed over
\* the vertices of the position buffer.
C7_OneDraw ==
    (last.op \in RenderOps /\ last.result.ok) =>
        /\ Len(last.draws) = 1
        /\ last.draws[1].instance_count = instance_count
        /\ last.draws[1].render_states = RenderedMaterial.render_states
        /\ IF IsSome(index_buffer)
           THEN /\ last.draws[1].call = "draw_elements_instanced"
                /\ last.draws[1].count = Len(Unwrap(index_buffer))
           ELSE /\ last.draws[1].call = "draw_arrays_instanced"
                /\ last.draws[1].count = Len(position_buffer)

\* C7 witness: a successful render of an indexed mesh holding particles, whose
\* index count differs from its vertex count.
C7_Witness ==
    /\ last.op \in RenderOps
    /\ last.result.ok
    /\ IsSome(index_buffer)
    /\ Len(Unwrap(index_buffer)) # Len(position_buffer)
    /\ instance_count > 0

\* C8: is_transparent() of the Gm returns what its material's is_transparent()
\* returns for the material the Gm holds at the call.
C8_TransparencyOfMaterial ==
    last.op = "is_transparent" => last.value = Material_is_transparent(material)

\* C8 witness: is_transparent() has returned true, which only a material put
\* in place after Gm::new gives.
C8_Witness ==
    /\ last.op = "is_transparent"
    /\ last.value
    /\ material.variant # "UVMaterial"

\* The outcomes the geometry gives for a material.
GeometryOutcomes(mat) ==
    {Particles_render_with_material(mat, uniforms_ok, draw_ok) :
        uniforms_ok \in BOOLEAN, draw_ok \in BOOLEAN}

\* C9: render gives an outcome of the geometry for the Gm's own material,
\* render_with_material one for the material supplied, and neither changes
\* the Gm's material.
C9_RenderForwards ==
    /\ [](last.op = "render" =>
            Rendered(last.result, last.draws) \in GeometryOutcomes(material))
    /\ [](last.op = "render_with_material" =>
            Rendered(last.result, last.draws) \in GeometryOutcomes(Unwrap(last.material)))
    /\ [][last'.op \in RenderOps => material' = material]_vars

\* C9 witness: a successful render_with_material with a material whose render
\* states are not those of the Gm's own material.
C9_Witness ==
    /\ last.op = "render_with_material"
    /\ last.result.ok
    /\ Unwrap(last.material).render_states # material.render_states
    /\ last.draws[1].render_states = Unwrap(last.material).render_states

\* C10: a render that returns an error leaves every field of the Particles
\* as it was.
C10_FailedRenderKeepsState ==
    [][(last'.op \in RenderOps /\ ~last'.result.ok) => UNCHANGED particles]_vars

\* C10 witness: a render has failed on a geometry that holds particles and a
\* transformation of its own.
C10_Witness ==
    /\ last.op \in RenderOps
    /\ ~last.result.ok
    /\ instance_count > 0
    /\ transformation # identity

(***************************************************************************)
(* Properties of the motion law.                                           *)
(***************************************************************************)
\* C11: the position drawn for each instance follows the motion law with the
\* time and acceleration fields as the caller last set them: at time 0 it is
\* the start position, at time 1 it is the start position plus the start
\* velocity plus half the acceleration, and the particle starting at the
\* origin with velocity (0, 1, 0) under acceleration (0, -9.82, 0) is drawn at
\* (0, -3.91, 0) at time 1.
C11_MotionLaw ==
    last.op \in RenderOps =>
        \A d \in 1..Len(last.draws) : \A i \in DOMAIN last.draws[d].p :
            LET p  == last.draws[d].p[i]
                sp == start_position_buffer[i]
                sv == start_velocity_buffer[i]
            IN  /\ time = 0 => p = sp
                /\ time = 1 =>
                      \A k \in 1..3 : 2 * p[k] = 2 * sp[k] + 2 * sv[k] + acceleration[k]
                /\ (time = 1 /\ sp = vec3(0, 0, 0) /\ sv = vec3(0, 100, 0)
                        /\ acceleration = vec3(0, -982, 0)) => p = vec3(0, -391, 0)

\* C11 witness: a draw at time 1 under gravity of the particle that starts at
\* the origin with velocity (0, 1, 0), and of another particle beside it.
C11_Witness ==
    /\ last.op \in RenderOps
    /\ last.result.ok
    /\ time = 1
    /\ acceleration = GRAVITY
    /\ Len(last.draws) = 1
    /\ Len(last.draws[1].p) = 2
    /\ start_position_buffer[1] = vec3(0, 0, 0)
    /\ start_velocity_buffer[1] = vec3(0, 100, 0)
    /\ last.draws[1].p[1] = vec3(0, -391, 0)

(***************************************************************************)
(* Properties of the generated vertex shader.                              *)
(***************************************************************************)
\* The inputs among pos, nor and uvs that a fragment shader source declares.
Declared(fragment_shader_source) ==
    {InputName(line) : line \in {IN_POS, IN_NOR, IN_UVS}
                              \cap {fragment_shader_source[i] :
                                      i \in 1..Len(fragment_shader_source)}}

\* The outputs main() of a vertex shader source writes.
Written(vs) == {vs.main[k].writes : k \in 1..Len(vs.main)} \ (vs.locals \cup {"gl_Position"})

\* C12: for the material of every render, the generated vertex shader
\* declares and writes exactly the outputs matching the inputs its fragment
\* shader source declares among pos, nor and uvs, takes the normal and uv
\* attributes exactly when nor and uvs are declared, and builds into a valid
\* program; and when the Particles holds the buffers those inputs need, the
\* render fails neither on the program nor on an attribute.
C12_EveryCombinationRenders ==
    last.op \in RenderOps =>
        LET fs == Material_fragment_shader_source(RenderedMaterial)
            vs == Particles_vertex_shader_source(fs)
        IN  /\ vs.outs = Declared(fs)
            /\ Written(vs) = Declared(fs)
            /\ "normal" \in vs.ins <=> "nor" \in Declared(fs)
            /\ "uv_coordinates" \in vs.ins <=> "uvs" \in Declared(fs)
            /\ Context_program(vs, fs).result.ok
            /\ (/\ "nor" \in Declared(fs) => IsSome(normal_buffer)
                /\ "uvs" \in Declared(fs) => IsSome(uv_buffer))
                  => /\ last.result.kind # "MissingAttribute"
                     /\ last.result.name # "program"

(***************************************************************************)
(* Frame properties of Particles.                                          *)
(***************************************************************************)
\* C13: every step leaves the fields its operation does not own as they were:
\* an update leaves all but the two instance buffers and instance_count, a
\* set_transformation leaves all but transformation and normal_transformation,
\* a render that returns Ok leaves every field, time and acceleration change
\* only in the caller's own assignment to them, and the mesh buffers never
\* change.  And update and set_transformation commute: a set_transformation
\* that returns leaves what every update would do as it was, and what it
\* writes is determined by its argument alone, so by nothing an update wrote.
C13_Frames ==
    [][/\ last'.op = "update" =>
             UNCHANGED <<mesh_buffers, acceleration, transformation,
                         normal_transformation, time>>
       /\ last'.op = "set_transformation" =>
             UNCHANGED <<instance_buffers, instance_count, mesh_buffers,
                         acceleration, time>>
       /\ (last'.op \in RenderOps /\ last'.result.ok) => UNCHANGED particles
       /\ time' # time => last'.op = "time"
       /\ acceleration' # acceleration => last'.op = "acceleration"
       /\ UNCHANGED mesh_buffers
       /\ (last'.op = "set_transformation" /\ ~panicked') =>
             /\ \A data \in DataSets, position_ok, velocity_ok \in BOOLEAN :
                   Particles_update(data, position_ok, velocity_ok)'
                       = Particles_update(data, position_ok, velocity_ok)
             /\ \E m \in Matrices :
                   /\ transformation' = m
                   /\ normal_transformation' = transpose(Unwrap(Mat4_invert(m)))
      ]_vars

\* C13 witness: a set_transformation has returned on a Particles that holds
\* the particles of an update, with a time and an acceleration of the
\* caller's, all of them still in place.
C13_Witness ==
    /\ last.op = "set_transformation"
    /\ ~panicked
    /\ transformation = Translation
    /\ Len(updated) = MaxParticles
    /\ instance_count = MaxParticles
    /\ start_position_buffer = StartPositions(updated)
    /\ start_velocity_buffer = StartVelocities(updated)
    /\ time = 1
    /\ acceleration = vec3(0, 0, 0)

====
